---- MODULE Spec2Model ----
(***************************************************************************)
(* Room-reservation backend: the reservation controller (createReservation,*)
(* updateReservation, cancelReservation) over the Reservation and Room     *)
(* collections.  Every handler is an async function: each `await` of a     *)
(* database operation is one atomic step of the database, and the          *)
(* synchronous code around it belongs to the same step.  Handlers of       *)
(* different requests interleave between their awaits.                     *)
(*                                                                         *)
(* Time is counted in ticks; TicksPerHour ticks make the hour that         *)
(* calculateTotalPrice divides by (1000 * 60 * 60 ms in the source).       *)
(***************************************************************************)
EXTENDS Integers, Sequences, FiniteSets, TLC

\* ---------------------------------------------------------------- bounds
NumReq == 3          \* concurrent requests
MaxTime == 3         \* times are 0..MaxTime
MaxNow == 1          \* the clock runs from 0 to MaxNow
TicksPerHour == 2    \* resolution of the clock
RacePoint == 1       \* the tick every racing request asks for

ReqIds == 1..NumReq
Times == 0..MaxTime
\* rooms 1 and 2 are bookable, room 3 is deactivated, id 4 names no room
RoomIds == {1, 2, 3, 4}

\* ------------------------------------------------------- values of fields
NoTime == -1                 \* startTime / endTime absent from a patch
NoAttendees == 0             \* attendees undefined (falsy in the source)
NoId == 0                    \* no reservation id
Undefined == "undefined"     \* purpose / status absent
NoCapacity == 0              \* capacity absent from a room patch
NoPrice == -1                \* pricePerHour absent from a room patch

PENDING == "pending"
CONFIRMED == "confirmed"
CANCELLED == "cancelled"
COMPLETED == "completed"
ReservationStatus == {PENDING, CONFIRMED, CANCELLED, COMPLETED}
ActiveStatuses == {CONFIRMED, PENDING}

\* results of a handler: the response or the error it throws
OK == "ok"
ErrEndNotAfterStart == "BadRequestError: End time must be after start time"
ErrStartInPast == "BadRequestError: Start time must be in the future"
ErrRoomNotFound == "NotFoundError: Room not found"
ErrRoomInactive == "BadRequestError: Room is not available for booking"
ErrCapacity == "BadRequestError: Number of attendees exceeds room capacity"
ErrConflict == "ConflictError: Room is not available for the selected time slot"
ErrReservationNotFound == "NotFoundError: Reservation not found"
ErrForbiddenUpdate == "ForbiddenError: You can only update your own reservations"
ErrForbiddenCancel == "ForbiddenError: You can only cancel your own reservations"
ErrPastReservation == "BadRequestError: Cannot update past reservations"
ErrForbiddenStatus == "ForbiddenError: Only admins can change reservation status"
ErrAlreadyCancelled == "BadRequestError: Reservation is already cancelled"
ErrPreValidate == "Error: End time must be after start time"
ErrTypeError == "TypeError: Cannot read properties of null"
ErrRoomHasReservations ==
  "BadRequestError: Cannot delete room with active or pending reservations"
ErrDatesRequired == "BadRequestError: Start date and end date are required"

\* the class of the error object each throw site constructs
ErrorClass(result) ==
  CASE result \in {ErrEndNotAfterStart, ErrStartInPast, ErrRoomInactive, ErrCapacity,
                   ErrPastReservation, ErrAlreadyCancelled,
                   ErrRoomHasReservations, ErrDatesRequired} -> "BadRequestError"
    [] result \in {ErrRoomNotFound, ErrReservationNotFound} -> "NotFoundError"
    [] result \in {ErrForbiddenUpdate, ErrForbiddenCancel, ErrForbiddenStatus} -> "ForbiddenError"
    [] result = ErrConflict -> "ConflictError"
    [] result = ErrPreValidate -> "Error"
    [] result = ErrTypeError -> "TypeError"
    [] OTHER -> "none"

\* ------------------------------------------------------------------ state
VARIABLES
  reservations,   \* the Reservation collection: sequence of documents, _id = index
  rooms,          \* the Room collection: RoomIds -> document
  now,            \* the clock read by `new Date()`
  req             \* the handlers: ReqIds -> local state of the request

vars == <<reservations, rooms, now, req>>

NoRoom == [exists |-> FALSE, isActive |-> FALSE, capacity |-> 0, pricePerHour |-> 0]

NoDoc ==
  [user |-> 0, room |-> 0, startTime |-> NoTime, endTime |-> NoTime,
   status |-> Undefined, purpose |-> Undefined, attendees |-> NoAttendees,
   totalPrice |-> 0]

\* req.body of updateRoom without any field; isActive is "true", "false" or
\* absent
NoBody == [capacity |-> NoCapacity, pricePerHour |-> NoPrice, isActive |-> Undefined]

\* a free slot; also the shape of every request record
IdleReq ==
  [op |-> "none", pc |-> "idle", userId |-> 0, isAdmin |-> FALSE,
   room |-> 0, id |-> NoId, startTime |-> NoTime, endTime |-> NoTime,
   attendees |-> NoAttendees, purpose |-> Undefined, status |-> Undefined,
   doc |-> NoDoc, modified |-> {}, roomDoc |-> NoRoom, result |-> "none",
   body |-> NoBody, bookedSlots |-> <<>>]

\* ------------------------------------------------------ pure functions
CeilDiv(n, k) == -((-n) \div k)

FloorPrice(pricePerHour, startTime, endTime) ==
  ((endTime - startTime) \div TicksPerHour) * pricePerHour

calculateTotalPrice(pricePerHour, startTime, endTime) ==
  CeilDiv(endTime - startTime, TicksPerHour) * pricePerHour

\* the $or of the findOne query: does the stored [c,d) match candidate [a,b)
TwoClauseMatch(c, d, a, b) ==
  \/ (c < b /\ c >= a)
  \/ (d > a /\ d <= b)

StartInsideMatch(c, d, a, b) == c < b /\ c >= a

EndInsideMatch(c, d, a, b) == d > a /\ d <= b

ClosedIntervalMatch(c, d, a, b) ==
  \/ (c <= b /\ c >= a)
  \/ (d >= a /\ d <= b)
  \/ (c <= a /\ d >= b)

IntervalQueryMatches(c, d, a, b) ==
  \/ (c < b /\ c >= a)
  \/ (d > a /\ d <= b)
  \/ (c <= a /\ d >= b)

AnyStatusMatches(doc, roomId, startTime, endTime) ==
  /\ doc.room = roomId
  /\ IntervalQueryMatches(doc.startTime, doc.endTime, startTime, endTime)

AnyRoomMatches(doc, roomId, startTime, endTime) ==
  /\ doc.status \in ActiveStatuses
  /\ IntervalQueryMatches(doc.startTime, doc.endTime, startTime, endTime)

ConfirmedOnlyMatches(doc, roomId, startTime, endTime) ==
  /\ doc.room = roomId
  /\ doc.status = CONFIRMED
  /\ IntervalQueryMatches(doc.startTime, doc.endTime, startTime, endTime)

\* the whole findOne filter applied to one stored document
QueryMatches(doc, roomId, startTime, endTime) ==
  /\ doc.room = roomId
  /\ doc.status \in ActiveStatuses
  /\ IntervalQueryMatches(doc.startTime, doc.endTime, startTime, endTime)

isRoomAvailableNoExclude(db, roomId, startTime, endTime, excludeReservationId) ==
  ~ \E i \in DOMAIN db : QueryMatches(db[i], roomId, startTime, endTime)

isRoomAvailable(db, roomId, startTime, endTime, excludeReservationId) ==
  ~ \E i \in DOMAIN db :
       /\ (excludeReservationId # NoId => i # excludeReservationId)
       /\ QueryMatches(db[i], roomId, startTime, endTime)

\* the handler ends: its locals are gone, the slot keeps the response until the
\* next request arrives on it
Finish(rq, result) ==
  [IdleReq EXCEPT !.op = rq.op, !.pc = "done", !.result = result]

\* ------------------------------------------------------------------ Init
Init ==
  /\ reservations = <<>>
  /\ rooms = [i \in RoomIds |->
               CASE i = 1 -> [exists |-> TRUE, isActive |-> TRUE, capacity |-> 2, pricePerHour |-> 30]
                 [] i = 2 -> [exists |-> TRUE, isActive |-> TRUE, capacity |-> 1, pricePerHour |-> 20]
                 [] i = 3 -> [exists |-> TRUE, isActive |-> FALSE, capacity |-> 2, pricePerHour |-> 30]
                 [] OTHER -> NoRoom]
  /\ now = 0
  /\ req = [r \in ReqIds |-> IdleReq]

\* ------------------------------------------------- createReservation
CreateFindRoomRoomFirst(r, userId, roomId, startTime, endTime, attendees, purpose) ==
  /\ req[r].pc \in {"idle", "done"}
  /\ LET room == rooms[roomId]
         rq == [IdleReq EXCEPT !.op = "create", !.userId = userId, !.room = roomId,
                               !.startTime = startTime, !.endTime = endTime,
                               !.attendees = attendees, !.purpose = purpose]
     IN req' = [req EXCEPT ![r] =
          IF ~room.exists THEN Finish(rq, ErrRoomNotFound)
          ELSE IF ~room.isActive THEN Finish(rq, ErrRoomInactive)
          ELSE IF startTime >= endTime THEN Finish(rq, ErrEndNotAfterStart)
          ELSE IF startTime < now THEN Finish(rq, ErrStartInPast)
          ELSE IF attendees # NoAttendees /\ attendees > room.capacity
            THEN Finish(rq, ErrCapacity)
          ELSE [rq EXCEPT !.pc = "avail", !.roomDoc = room]]
  /\ UNCHANGED <<reservations, rooms, now>>

CreateFindRoomStrictCapacity(r, userId, roomId, startTime, endTime, attendees, purpose) ==
  /\ req[r].pc \in {"idle", "done"}
  /\ LET room == rooms[roomId]
         rq == [IdleReq EXCEPT !.op = "create", !.userId = userId, !.room = roomId,
                               !.startTime = startTime, !.endTime = endTime,
                               !.attendees = attendees, !.purpose = purpose]
     IN req' = [req EXCEPT ![r] =
          IF startTime >= endTime THEN Finish(rq, ErrEndNotAfterStart)
          ELSE IF startTime < now THEN Finish(rq, ErrStartInPast)
          ELSE IF ~room.exists THEN Finish(rq, ErrRoomNotFound)
          ELSE IF ~room.isActive THEN Finish(rq, ErrRoomInactive)
          ELSE IF attendees # NoAttendees /\ attendees >= room.capacity
            THEN Finish(rq, ErrCapacity)
          ELSE [rq EXCEPT !.pc = "avail", !.roomDoc = room]]
  /\ UNCHANGED <<reservations, rooms, now>>

\* lines 62-93: date checks, Room.findById, room checks
CreateFindRoom(r, userId, roomId, startTime, endTime, attendees, purpose) ==
  /\ req[r].pc \in {"idle", "done"}
  /\ LET room == rooms[roomId]
         rq == [IdleReq EXCEPT !.op = "create", !.userId = userId, !.room = roomId,
                               !.startTime = startTime, !.endTime = endTime,
                               !.attendees = attendees, !.purpose = purpose]
     IN req' = [req EXCEPT ![r] =
          IF startTime >= endTime THEN Finish(rq, ErrEndNotAfterStart)
          ELSE IF startTime < now THEN Finish(rq, ErrStartInPast)
          ELSE IF ~room.exists THEN Finish(rq, ErrRoomNotFound)
          ELSE IF ~room.isActive THEN Finish(rq, ErrRoomInactive)
          ELSE IF attendees # NoAttendees /\ attendees > room.capacity
            THEN Finish(rq, ErrCapacity)
          ELSE [rq EXCEPT !.pc = "avail", !.roomDoc = room]]
  /\ UNCHANGED <<reservations, rooms, now>>

CreateCheckAvailInsertsFirst(r) ==
  /\ req[r].op = "create" /\ req[r].pc = "avail"
  /\ LET rq == req[r]
         available == isRoomAvailable(reservations, rq.room, rq.startTime, rq.endTime, NoId)
         doc == [user |-> rq.userId, room |-> rq.room,
                 startTime |-> rq.startTime, endTime |-> rq.endTime,
                 status |-> CONFIRMED, purpose |-> rq.purpose,
                 attendees |-> rq.attendees,
                 totalPrice |-> calculateTotalPrice(
                    rq.roomDoc.pricePerHour, rq.startTime, rq.endTime)]
     IN IF ~available
          THEN /\ req' = [req EXCEPT ![r] = Finish(rq, ErrConflict)]
               /\ reservations' = Append(reservations, doc)
          ELSE /\ req' = [req EXCEPT ![r] = [rq EXCEPT !.pc = "insert", !.doc = doc]]
               /\ UNCHANGED reservations
  /\ UNCHANGED <<rooms, now>>

CreateCheckAvailPending(r) ==
  /\ req[r].op = "create" /\ req[r].pc = "avail"
  /\ LET rq == req[r]
         available == isRoomAvailable(reservations, rq.room, rq.startTime, rq.endTime, NoId)
     IN req' = [req EXCEPT ![r] =
          IF ~available THEN Finish(rq, ErrConflict)
          ELSE [rq EXCEPT !.pc = "insert",
                          !.doc = [user |-> rq.userId, room |-> rq.room,
                                   startTime |-> rq.startTime, endTime |-> rq.endTime,
                                   status |-> PENDING, purpose |-> rq.purpose,
                                   attendees |-> rq.attendees,
                                   totalPrice |-> calculateTotalPrice(
                                      rq.roomDoc.pricePerHour, rq.startTime, rq.endTime)]]]
  /\ UNCHANGED <<reservations, rooms, now>>

\* lines 95-115: isRoomAvailable, the price, the document handed to
\* Reservation.create
CreateCheckAvail(r) ==
  /\ req[r].op = "create" /\ req[r].pc = "avail"
  /\ LET rq == req[r]
         available == isRoomAvailable(reservations, rq.room, rq.startTime, rq.endTime, NoId)
     IN req' = [req EXCEPT ![r] =
          IF ~available THEN Finish(rq, ErrConflict)
          ELSE [rq EXCEPT !.pc = "insert",
                          !.doc = [user |-> rq.userId, room |-> rq.room,
                                   startTime |-> rq.startTime, endTime |-> rq.endTime,
                                   status |-> CONFIRMED, purpose |-> rq.purpose,
                                   attendees |-> rq.attendees,
                                   totalPrice |-> calculateTotalPrice(
                                      rq.roomDoc.pricePerHour, rq.startTime, rq.endTime)]]]
  /\ UNCHANGED <<reservations, rooms, now>>

\* lines 105-123: Reservation.create (pre-validate hook, insert), response
CreateInsert(r) ==
  /\ req[r].op = "create" /\ req[r].pc = "insert"
  /\ LET rq == req[r]
     IN IF rq.doc.endTime <= rq.doc.startTime
          THEN /\ req' = [req EXCEPT ![r] = Finish(rq, ErrPreValidate)]
               /\ UNCHANGED reservations
          ELSE /\ reservations' = Append(reservations, rq.doc)
               /\ req' = [req EXCEPT ![r] = Finish(rq, OK)]
  /\ UNCHANGED <<rooms, now>>

\* ------------------------------------------------------------- the clock
Tick ==
  /\ now < MaxNow
  /\ now' = now + 1
  /\ UNCHANGED <<reservations, rooms, req>>

\* ------------------------------------------------- mongoose documents
\* assigning a path marks it modified only when the value differs
SetPath(d, path, value) ==
  IF d.doc[path] = value THEN d
  ELSE [doc |-> [d.doc EXCEPT ![path] = value], modified |-> d.modified \cup {path}]

\* document.save(): the pre('validate') hook, then $set of the modified paths
\* on the stored document
PreValidateFails(doc) == doc.endTime <= doc.startTime

\* variant: the save writes the status of the loaded copy along with the
\* modified paths
SaveStatusToo(db, id, doc, modified) ==
  [db EXCEPT ![id] = [path \in DOMAIN @ |->
                        IF path \in modified \cup {"status"} THEN doc[path] ELSE @[path]]]

SaveAllPaths(db, id, doc, modified) == [db EXCEPT ![id] = doc]

SaveModified(db, id, doc, modified) ==
  [db EXCEPT ![id] = [path \in DOMAIN @ |-> IF path \in modified THEN doc[path] ELSE @[path]]]

\* ------------------------------------------------- updateReservation
NewStartTime(rq) == IF rq.startTime # NoTime THEN rq.startTime ELSE rq.doc.startTime
NewEndTime(rq) == IF rq.endTime # NoTime THEN rq.endTime ELSE rq.doc.endTime

UpdateTailAnyoneSetsStatus(rq, d) ==
  LET d1 == IF rq.purpose # Undefined THEN SetPath(d, "purpose", rq.purpose) ELSE d
  IN IF rq.attendees # NoAttendees /\ ~rq.roomDoc.exists THEN Finish(rq, ErrTypeError)
     ELSE IF rq.attendees # NoAttendees /\ rq.attendees > rq.roomDoc.capacity
       THEN Finish(rq, ErrCapacity)
     ELSE LET d2 == IF rq.attendees # NoAttendees
                      THEN SetPath(d1, "attendees", rq.attendees) ELSE d1
              d3 == IF rq.status # Undefined THEN SetPath(d2, "status", rq.status) ELSE d2
          IN [rq EXCEPT !.pc = "save", !.doc = d3.doc, !.modified = d3.modified]

\* lines 291-308: purpose, attendees, status of the patch; d is the document
\* with the paths set so far
UpdateTail(rq, d) ==
  LET d1 == IF rq.purpose # Undefined THEN SetPath(d, "purpose", rq.purpose) ELSE d
  IN IF rq.attendees # NoAttendees /\ ~rq.roomDoc.exists THEN Finish(rq, ErrTypeError)
     ELSE IF rq.attendees # NoAttendees /\ rq.attendees > rq.roomDoc.capacity
       THEN Finish(rq, ErrCapacity)
     ELSE IF rq.status # Undefined /\ ~rq.isAdmin THEN Finish(rq, ErrForbiddenStatus)
     ELSE LET d2 == IF rq.attendees # NoAttendees
                      THEN SetPath(d1, "attendees", rq.attendees) ELSE d1
              d3 == IF rq.status # Undefined THEN SetPath(d2, "status", rq.status) ELSE d2
          IN [rq EXCEPT !.pc = "save", !.doc = d3.doc, !.modified = d3.modified]

UpdateFindResultEndPast(rq0) ==
  IF rq0.id \notin DOMAIN reservations THEN Finish(rq0, ErrReservationNotFound)
  ELSE LET room == rooms[reservations[rq0.id].room]
           rq == [rq0 EXCEPT !.doc = reservations[rq0.id],
                             !.roomDoc = IF room.exists THEN room ELSE NoRoom]
           isOwner == rq.doc.user = rq0.userId
       IN IF ~isOwner /\ ~rq0.isAdmin THEN Finish(rq, ErrForbiddenUpdate)
          ELSE IF ~rq0.isAdmin /\ rq.doc.endTime < now
            THEN Finish(rq, ErrPastReservation)
          ELSE IF rq0.startTime # NoTime \/ rq0.endTime # NoTime
            THEN IF NewStartTime(rq) >= NewEndTime(rq)
                   THEN Finish(rq, ErrEndNotAfterStart)
                 ELSE IF ~rq.roomDoc.exists THEN Finish(rq, ErrTypeError)
                 ELSE [rq EXCEPT !.pc = "avail"]
          ELSE UpdateTail(rq, [doc |-> rq.doc, modified |-> {}])

UpdateFindResultPastFirst(rq0) ==
  IF rq0.id \notin DOMAIN reservations THEN Finish(rq0, ErrReservationNotFound)
  ELSE LET room == rooms[reservations[rq0.id].room]
           rq == [rq0 EXCEPT !.doc = reservations[rq0.id],
                             !.roomDoc = IF room.exists THEN room ELSE NoRoom]
           isOwner == rq.doc.user = rq0.userId
       IN IF ~rq0.isAdmin /\ rq.doc.startTime < now
            THEN Finish(rq, ErrPastReservation)
          ELSE IF ~isOwner /\ ~rq0.isAdmin THEN Finish(rq, ErrForbiddenUpdate)
          ELSE IF rq0.startTime # NoTime \/ rq0.endTime # NoTime
            THEN IF NewStartTime(rq) >= NewEndTime(rq)
                   THEN Finish(rq, ErrEndNotAfterStart)
                 ELSE IF ~rq.roomDoc.exists THEN Finish(rq, ErrTypeError)
                 ELSE [rq EXCEPT !.pc = "avail"]
          ELSE UpdateTail(rq, [doc |-> rq.doc, modified |-> {}])

\* lines 233-267: Reservation.findById(id).populate('room') (one awaited query
\* chain: the reservation, then the room it names), permission and date
\* checks and, without startTime and endTime in the patch, lines 291-308;
\* rq0 is the request as it arrives, the result is the handler's local state
\* at its next await, or its answer
UpdateFindResult(rq0) ==
  IF rq0.id \notin DOMAIN reservations THEN Finish(rq0, ErrReservationNotFound)
  ELSE LET room == rooms[reservations[rq0.id].room]
           rq == [rq0 EXCEPT !.doc = reservations[rq0.id],
                             !.roomDoc = IF room.exists THEN room ELSE NoRoom]
           isOwner == rq.doc.user = rq0.userId
       IN IF ~isOwner /\ ~rq0.isAdmin THEN Finish(rq, ErrForbiddenUpdate)
          ELSE IF ~rq0.isAdmin /\ rq.doc.startTime < now
            THEN Finish(rq, ErrPastReservation)
          ELSE IF rq0.startTime # NoTime \/ rq0.endTime # NoTime
            THEN IF NewStartTime(rq) >= NewEndTime(rq)
                   THEN Finish(rq, ErrEndNotAfterStart)
                 ELSE IF ~rq.roomDoc.exists THEN Finish(rq, ErrTypeError)
                 ELSE [rq EXCEPT !.pc = "avail"]
          ELSE UpdateTail(rq, [doc |-> rq.doc, modified |-> {}])

UpdateRequest(userId, isAdmin, id, startTime, endTime, purpose, attendees, status) ==
  [IdleReq EXCEPT !.op = "update", !.userId = userId, !.isAdmin = isAdmin,
                  !.id = id, !.startTime = startTime, !.endTime = endTime,
                  !.purpose = purpose, !.attendees = attendees, !.status = status]

UpdateFind(r, userId, isAdmin, id, startTime, endTime, purpose, attendees, status) ==
  /\ req[r].pc \in {"idle", "done"}
  /\ req' = [req EXCEPT ![r] =
       UpdateFindResult(UpdateRequest(userId, isAdmin, id, startTime, endTime,
                                      purpose, attendees, status))]
  /\ UNCHANGED <<reservations, rooms, now>>

\* variant: a non-admin patch that carries a status is refused before the
\* availability of the new interval is looked at
UpdateCheckResultStatusFirst(rq) ==
  LET available == isRoomAvailable(reservations, rq.doc.room,
                                   NewStartTime(rq), NewEndTime(rq), rq.id)
      d0 == [doc |-> rq.doc, modified |-> {}]
      d1 == SetPath(d0, "totalPrice",
                    calculateTotalPrice(rq.roomDoc.pricePerHour,
                                        NewStartTime(rq), NewEndTime(rq)))
      d2 == SetPath(d1, "startTime", NewStartTime(rq))
      d3 == SetPath(d2, "endTime", NewEndTime(rq))
  IN IF rq.status # Undefined /\ ~rq.isAdmin THEN Finish(rq, ErrForbiddenStatus)
     ELSE IF ~available THEN Finish(rq, ErrConflict) ELSE UpdateTail(rq, d3)

\* lines 269-308 as a function of the handler's locals: isRoomAvailable
\* excluding the reservation itself, the new price and interval, then the rest
\* of the patch
UpdateCheckResult(rq) ==
  LET available == isRoomAvailable(reservations, rq.doc.room,
                                   NewStartTime(rq), NewEndTime(rq), rq.id)
      d0 == [doc |-> rq.doc, modified |-> {}]
      d1 == SetPath(d0, "totalPrice",
                    calculateTotalPrice(rq.roomDoc.pricePerHour,
                                        NewStartTime(rq), NewEndTime(rq)))
      d2 == SetPath(d1, "startTime", NewStartTime(rq))
      d3 == SetPath(d2, "endTime", NewEndTime(rq))
  IN IF ~available THEN Finish(rq, ErrConflict) ELSE UpdateTail(rq, d3)

\* variant: the new interval and price are written to the store as soon as
\* they are assigned, before the rest of the patch is looked at
UpdateCheckAvailSavesFirst(r) ==
  /\ req[r].op = "update" /\ req[r].pc = "avail"
  /\ LET rq == req[r]
         available == isRoomAvailable(reservations, rq.doc.room,
                                      NewStartTime(rq), NewEndTime(rq), rq.id)
         d0 == [doc |-> rq.doc, modified |-> {}]
         d1 == SetPath(d0, "totalPrice",
                       calculateTotalPrice(rq.roomDoc.pricePerHour,
                                           NewStartTime(rq), NewEndTime(rq)))
         d2 == SetPath(d1, "startTime", NewStartTime(rq))
         d3 == SetPath(d2, "endTime", NewEndTime(rq))
     IN /\ req' = [req EXCEPT ![r] =
             IF ~available THEN Finish(rq, ErrConflict) ELSE UpdateTail(rq, d3)]
        /\ reservations' = IF available
                             THEN SaveModified(reservations, rq.id, d3.doc, d3.modified)
                             ELSE reservations
  /\ UNCHANGED <<rooms, now>>

\* lines 269-308: isRoomAvailable excluding the reservation itself, the new
\* price and interval, then the rest of the patch
UpdateCheckAvail(r) ==
  /\ req[r].op = "update" /\ req[r].pc = "avail"
  /\ req' = [req EXCEPT ![r] = UpdateCheckResult(req[r])]
  /\ UNCHANGED <<reservations, rooms, now>>

\* lines 310-315: reservation.save(), response
UpdateSave(r) ==
  /\ req[r].op = "update" /\ req[r].pc = "save"
  /\ LET rq == req[r]
     IN IF PreValidateFails(rq.doc)
          THEN /\ req' = [req EXCEPT ![r] = Finish(rq, ErrPreValidate)]
               /\ UNCHANGED reservations
          ELSE /\ reservations' = SaveModified(reservations, rq.id, rq.doc, rq.modified)
               /\ req' = [req EXCEPT ![r] = Finish(rq, OK)]
  /\ UNCHANGED <<rooms, now>>

\* ------------------------------------------------- cancelReservation
CancelFindResultIdempotent(rq) ==
  IF rq.id \notin DOMAIN reservations THEN Finish(rq, ErrReservationNotFound)
  ELSE LET doc == reservations[rq.id]
           d == SetPath([doc |-> doc, modified |-> {}], "status", CANCELLED)
       IN IF doc.user # rq.userId /\ ~rq.isAdmin THEN Finish(rq, ErrForbiddenCancel)
          ELSE [rq EXCEPT !.pc = "save", !.doc = d.doc, !.modified = d.modified]

\* lines 326-353: Reservation.findById, permission, already cancelled
CancelFindResult(rq) ==
  IF rq.id \notin DOMAIN reservations THEN Finish(rq, ErrReservationNotFound)
  ELSE LET doc == reservations[rq.id]
           d == SetPath([doc |-> doc, modified |-> {}], "status", CANCELLED)
       IN IF doc.user # rq.userId /\ ~rq.isAdmin THEN Finish(rq, ErrForbiddenCancel)
          ELSE IF doc.status = CANCELLED THEN Finish(rq, ErrAlreadyCancelled)
          ELSE [rq EXCEPT !.pc = "save", !.doc = d.doc, !.modified = d.modified]

CancelRequest(userId, isAdmin, id) ==
  [IdleReq EXCEPT !.op = "cancel", !.userId = userId, !.isAdmin = isAdmin, !.id = id]

CancelFind(r, userId, isAdmin, id) ==
  /\ req[r].pc \in {"idle", "done"}
  /\ req' = [req EXCEPT ![r] = CancelFindResult(CancelRequest(userId, isAdmin, id))]
  /\ UNCHANGED <<reservations, rooms, now>>

\* lines 354-356: reservation.save(), response
CancelSave(r) ==
  /\ req[r].op = "cancel" /\ req[r].pc = "save"
  /\ LET rq == req[r]
     IN IF PreValidateFails(rq.doc)
          THEN /\ req' = [req EXCEPT ![r] = Finish(rq, ErrPreValidate)]
               /\ UNCHANGED reservations
          ELSE /\ reservations' = SaveModified(reservations, rq.id, rq.doc, rq.modified)
               /\ req' = [req EXCEPT ![r] = Finish(rq, OK)]
  /\ UNCHANGED <<rooms, now>>

\* ------------------------------------------------------------ updateRoom
\* Room.findByIdAndUpdate(id, req.body): one atomic operation of the database
ApplyRoomBody(room, body) ==
  [room EXCEPT !.capacity = IF body.capacity # NoCapacity THEN body.capacity ELSE @,
               !.pricePerHour = IF body.pricePerHour # NoPrice THEN body.pricePerHour ELSE @,
               !.isActive = IF body.isActive # Undefined THEN body.isActive = "true" ELSE @]

updateRoom(r, id, body) ==
  /\ req[r].pc \in {"idle", "done"}
  /\ LET rq == [IdleReq EXCEPT !.op = "updateRoom", !.room = id, !.body = body]
     IN IF ~rooms[id].exists
          THEN /\ req' = [req EXCEPT ![r] = Finish(rq, ErrRoomNotFound)]
               /\ UNCHANGED rooms
          ELSE /\ rooms' = [rooms EXCEPT ![id] = ApplyRoomBody(@, body)]
               /\ req' = [req EXCEPT ![r] = Finish(rq, OK)]
  /\ UNCHANGED <<reservations, now>>

\* ------------------------------------------------------------ deleteRoom
\* lines 182-200: Reservation.countDocuments of the room's active
\* reservations that end after now
DeleteRoomCount(r, id) ==
  /\ req[r].pc \in {"idle", "done"}
  /\ LET rq == [IdleReq EXCEPT !.op = "deleteRoom", !.room = id]
         activeReservations ==
           Cardinality({i \in DOMAIN reservations :
                          /\ reservations[i].room = id
                          /\ reservations[i].status \in ActiveStatuses
                          /\ reservations[i].endTime > now})
     IN req' = [req EXCEPT ![r] =
          IF activeReservations > 0 THEN Finish(rq, ErrRoomHasReservations)
          ELSE [rq EXCEPT !.pc = "delete"]]
  /\ UNCHANGED <<reservations, rooms, now>>

\* variant: deleting the room also deletes the reservations that refer to it
DeleteRoomDeleteCascade(r) ==
  /\ req[r].op = "deleteRoom" /\ req[r].pc = "delete"
  /\ LET rq == req[r]
         Other(doc) == doc.room # rq.room
     IN IF ~rooms[rq.room].exists
          THEN /\ req' = [req EXCEPT ![r] = Finish(rq, ErrRoomNotFound)]
               /\ UNCHANGED <<rooms, reservations>>
          ELSE /\ rooms' = [rooms EXCEPT ![rq.room] = NoRoom]
               /\ reservations' = SelectSeq(reservations, Other)
               /\ req' = [req EXCEPT ![r] = Finish(rq, OK)]
  /\ UNCHANGED now

\* lines 202-210: Room.findByIdAndDelete
DeleteRoomDelete(r) ==
  /\ req[r].op = "deleteRoom" /\ req[r].pc = "delete"
  /\ LET rq == req[r]
     IN IF ~rooms[rq.room].exists
          THEN /\ req' = [req EXCEPT ![r] = Finish(rq, ErrRoomNotFound)]
               /\ UNCHANGED rooms
          ELSE /\ rooms' = [rooms EXCEPT ![rq.room] = NoRoom]
               /\ req' = [req EXCEPT ![r] = Finish(rq, OK)]
  /\ UNCHANGED <<reservations, now>>

\* --------------------------------------------------- getRoomAvailability
\* variant: the filter of the report without the status clause
AvailabilityMatchesAnyStatus(doc, id, startDate, endDate) ==
  /\ doc.room = id
  /\ doc.startTime < endDate
  /\ doc.endTime > startDate

\* lines 237-241: the filter of Reservation.find
AvailabilityMatches(doc, id, startDate, endDate) ==
  /\ doc.room = id
  /\ doc.status \in {CONFIRMED, PENDING}
  /\ doc.startTime < endDate
  /\ doc.endTime > startDate

\* line 242, .sort({ startTime: 1 }): the orders of the matching documents in
\* which startTime never decreases; the database leaves the order of documents
\* with equal startTime open
SortedByStartTime(db, ids) ==
  {s \in [1..Cardinality(ids) -> ids] :
     /\ \A k, l \in DOMAIN s : k # l => s[k] # s[l]
     /\ \A k, l \in DOMAIN s : k < l => db[s[k]].startTime <= db[s[l]].startTime}

\* lines 255-259: the projection of a reservation in bookedSlots
BookedSlot(doc) ==
  [startTime |-> doc.startTime, endTime |-> doc.endTime, status |-> doc.status]

\* lines 219-234: the query parameters, Room.findById
AvailabilityFindRoom(r, id, startDate, endDate) ==
  /\ req[r].pc \in {"idle", "done"}
  /\ LET rq == [IdleReq EXCEPT !.op = "availability", !.room = id,
                               !.startTime = startDate, !.endTime = endDate]
     IN req' = [req EXCEPT ![r] =
          IF startDate = NoTime \/ endDate = NoTime THEN Finish(rq, ErrDatesRequired)
          ELSE IF ~rooms[id].exists THEN Finish(rq, ErrRoomNotFound)
          ELSE [rq EXCEPT !.pc = "find"]]
  /\ UNCHANGED <<reservations, rooms, now>>

\* lines 236-261: Reservation.find(...).sort(...), the response with the room,
\* the date range and the booked slots
AvailabilityFind(r) ==
  /\ req[r].op = "availability" /\ req[r].pc = "find"
  /\ LET rq == req[r]
         ids == {i \in DOMAIN reservations :
                   AvailabilityMatches(reservations[i], rq.room, rq.startTime, rq.endTime)}
     IN \E s \in SortedByStartTime(reservations, ids) :
          req' = [req EXCEPT ![r] =
            [Finish(rq, OK) EXCEPT
               !.room = rq.room, !.startTime = rq.startTime, !.endTime = rq.endTime,
               !.bookedSlots = [k \in 1..Cardinality(ids) |-> BookedSlot(reservations[s[k]])]]]
  /\ UNCHANGED <<reservations, rooms, now>>

\* ------------------------------------------ handlers without interleaving
\* createReservation, lines 60-125, with no other request between its awaits
createReservationAtomic(r, userId, roomId, startTime, endTime, attendees, purpose) ==
  /\ req[r].pc \in {"idle", "done"}
  /\ LET room == rooms[roomId]
         rq == [IdleReq EXCEPT !.op = "create"]
         result ==
           IF startTime >= endTime THEN ErrEndNotAfterStart
           ELSE IF startTime < now THEN ErrStartInPast
           ELSE IF ~room.exists THEN ErrRoomNotFound
           ELSE IF ~room.isActive THEN ErrRoomInactive
           ELSE IF attendees # NoAttendees /\ attendees > room.capacity THEN ErrCapacity
           ELSE IF ~isRoomAvailable(reservations, roomId, startTime, endTime, NoId)
             THEN ErrConflict
           ELSE OK
         doc == [user |-> userId, room |-> roomId,
                 startTime |-> startTime, endTime |-> endTime,
                 status |-> CONFIRMED, purpose |-> purpose, attendees |-> attendees,
                 totalPrice |-> calculateTotalPrice(room.pricePerHour, startTime, endTime)]
     IN /\ req' = [req EXCEPT ![r] = Finish(rq, result)]
        /\ reservations' = IF result = OK THEN Append(reservations, doc) ELSE reservations
  /\ UNCHANGED <<rooms, now>>

\* updateReservation, lines 231-317, with no other request between its awaits
updateReservationAtomic(r, userId, isAdmin, id, startTime, endTime, purpose, attendees, status) ==
  /\ req[r].pc \in {"idle", "done"}
  /\ LET rq1 == UpdateFindResult(UpdateRequest(userId, isAdmin, id, startTime, endTime,
                                               purpose, attendees, status))
         rq2 == IF rq1.pc = "avail" THEN UpdateCheckResult(rq1) ELSE rq1
         saves == rq2.pc = "save" /\ ~PreValidateFails(rq2.doc)
     IN /\ req' = [req EXCEPT ![r] =
             IF rq2.pc = "save" THEN Finish(rq2, IF saves THEN OK ELSE ErrPreValidate)
             ELSE rq2]
        /\ reservations' = IF saves
                             THEN SaveModified(reservations, rq2.id, rq2.doc, rq2.modified)
                             ELSE reservations
  /\ UNCHANGED <<rooms, now>>

\* cancelReservation, lines 324-358, with no other request between its awaits
cancelReservationAtomic(r, userId, isAdmin, id) ==
  /\ req[r].pc \in {"idle", "done"}
  /\ LET rq == CancelFindResult(CancelRequest(userId, isAdmin, id))
         saves == rq.pc = "save" /\ ~PreValidateFails(rq.doc)
     IN /\ req' = [req EXCEPT ![r] =
             IF rq.pc = "save" THEN Finish(rq, IF saves THEN OK ELSE ErrPreValidate)
             ELSE rq]
        /\ reservations' = IF saves
                             THEN SaveModified(reservations, rq.id, rq.doc, rq.modified)
                             ELSE reservations
  /\ UNCHANGED <<rooms, now>>

\* ------------------------------------------------------- specifications
\* ids a request can name: at most NumReq reservations are ever stored
ResIds == 1..NumReq
\* who sends requests: user 1 books; user 2 is another user, or an admin
Creators == {1}
Actors == {<<1, FALSE>>, <<2, FALSE>>, <<2, TRUE>>}
TooMany == 3
AttendeeCounts == {NoAttendees, TooMany}
PatchStatuses == {Undefined} \cup ReservationStatus

\* the request bodies: a create; an update that patches the interval or the
\* status; a cancel
CreateOn(r, R, TS, TE, N) ==
  \E userId \in Creators, roomId \in R, startTime \in TS, endTime \in TE,
     attendees \in N :
       CreateFindRoom(r, userId, roomId, startTime, endTime, attendees, Undefined)

UpdateOn(r, T, S) ==
  \E actor \in Actors, id \in ResIds,
     startTime \in {NoTime} \cup T, endTime \in {NoTime} \cup T, status \in S :
       /\ (startTime # NoTime \/ endTime # NoTime) => status = Undefined
       /\ (startTime # NoTime \/ endTime # NoTime \/ status # Undefined)
       /\ UpdateFind(r, actor[1], actor[2], id, startTime, endTime,
                     Undefined, NoAttendees, status)

CancelOn(r) ==
  \E actor \in Actors, id \in ResIds : CancelFind(r, actor[1], actor[2], id)

\* Spec: NumReq requests arrive one after the other, each on its own slot, and
\* their handlers run concurrently, interleaved at their awaits; a request may
\* also arrive after the earlier ones have been answered
Arrives(r) ==
  /\ req[r].pc = "idle"
  /\ \A q \in ReqIds : q < r => req[q].pc # "idle"

Create == \E r \in ReqIds : Arrives(r) /\ CreateOn(r, RoomIds, Times, Times, AttendeeCounts)
CreateAvail == \E r \in ReqIds : CreateCheckAvail(r)
CreateSave == \E r \in ReqIds : CreateInsert(r)
Update == \E r \in ReqIds : Arrives(r) /\ UpdateOn(r, Times, PatchStatuses)
UpdateAvail == \E r \in ReqIds : UpdateCheckAvail(r)
UpdateWrite == \E r \in ReqIds : UpdateSave(r)
Cancel == \E r \in ReqIds : Arrives(r) /\ CancelOn(r)
CancelWrite == \E r \in ReqIds : CancelSave(r)

Next ==
  \/ Create \/ CreateAvail \/ CreateSave
  \/ Update \/ UpdateAvail \/ UpdateWrite
  \/ Cancel \/ CancelWrite
  \/ Tick

Spec == Init /\ [][Next]_vars

\* SpecCreates: the NumReq requests are all createReservation
NextCreates == Create \/ CreateAvail \/ CreateSave \/ Tick

SpecCreates == Init /\ [][NextCreates]_vars

\* SpecRace: the NumReq requests are all createReservation for room 1, and
\* every interval asked for contains [RacePoint, RacePoint + 1), so any two of
\* them overlap
RaceStarts == {t \in Times : t <= RacePoint}
RaceEnds == {t \in Times : t > RacePoint}

RaceCreate ==
  \E r \in ReqIds : Arrives(r) /\ CreateOn(r, {1}, RaceStarts, RaceEnds, {NoAttendees})

NextRace == RaceCreate \/ CreateAvail \/ CreateSave \/ Tick

SpecRace == Init /\ [][NextRace]_vars

\* SpecCapacity: the NumReq requests are all createReservation for a bookable
\* room, each carrying an attendee count from 1 to TooMany
BookableRooms == {i \in RoomIds : i <= 2}
CapacityCounts == 1..TooMany

CapacityCreate ==
  \E r \in ReqIds : Arrives(r) /\ CreateOn(r, BookableRooms, Times, Times, CapacityCounts)

NextCapacity == CapacityCreate \/ CreateAvail \/ CreateSave \/ Tick

SpecCapacity == Init /\ [][NextCapacity]_vars

\* SpecPatch: one create for a bookable room, one cancel and one update whose
\* patch is any combination of startTime, endTime, purpose, attendees and
\* status, arriving in any order and running concurrently
PatchPurposes == {Undefined, "meeting"}
PatchAttendees == {NoAttendees, TooMany - 1, TooMany}

PatchStarts == {NoTime} \cup RaceStarts
PatchEnds == {NoTime} \cup RaceEnds

PatchOn(r) ==
  \E actor \in Actors, id \in ResIds,
     startTime \in PatchStarts, endTime \in PatchEnds,
     purpose \in PatchPurposes, attendees \in PatchAttendees, status \in PatchStatuses :
       UpdateFind(r, actor[1], actor[2], id, startTime, endTime, purpose, attendees, status)

NotYet(op) == \A q \in ReqIds : req[q].op # op

PatchCreate ==
  \E r \in ReqIds :
    Arrives(r) /\ NotYet("create") /\ CreateOn(r, BookableRooms, Times, Times, {NoAttendees})
Patch == \E r \in ReqIds : Arrives(r) /\ NotYet("update") /\ PatchOn(r)
PatchCancel == \E r \in ReqIds : Arrives(r) /\ NotYet("cancel") /\ CancelOn(r)

NextPatch ==
  \/ PatchCreate \/ CreateAvail \/ CreateSave
  \/ Patch \/ UpdateAvail \/ UpdateWrite
  \/ PatchCancel \/ CancelWrite
  \/ Tick

SpecPatch == Init /\ [][NextPatch]_vars

\* SpecRooms: at most one request of each kind, on NumReq slots in any order
\* and running concurrently: a create for a bookable room, an update with any
\* patch, a cancel, an updateRoom that changes the capacity, the price or the
\* active flag of a bookable room, and a deleteRoom
NewPrice == 50
MinCapacity == 1
RoomBodies ==
  {[NoBody EXCEPT !.capacity = MinCapacity],
   [NoBody EXCEPT !.pricePerHour = NewPrice],
   [NoBody EXCEPT !.isActive = "false"],
   [NoBody EXCEPT !.isActive = "true"]}
RoomAttendees == {NoAttendees, TooMany - 1}

RoomsCreate ==
  \E r \in ReqIds :
    Arrives(r) /\ NotYet("create") /\ CreateOn(r, BookableRooms, Times, Times, RoomAttendees)
RoomUpdate ==
  \E r \in ReqIds, id \in BookableRooms, body \in RoomBodies :
    Arrives(r) /\ NotYet("updateRoom") /\ updateRoom(r, id, body)
RoomDeleteCount ==
  \E r \in ReqIds, id \in BookableRooms :
    Arrives(r) /\ NotYet("deleteRoom") /\ DeleteRoomCount(r, id)
RoomDelete == \E r \in ReqIds : DeleteRoomDelete(r)

NextRooms ==
  \/ RoomsCreate \/ CreateAvail \/ CreateSave
  \/ Patch \/ UpdateAvail \/ UpdateWrite
  \/ PatchCancel \/ CancelWrite
  \/ RoomUpdate \/ RoomDeleteCount \/ RoomDelete
  \/ Tick

SpecRooms == Init /\ [][NextRooms]_vars

\* SpecAvail: creates for the bookable rooms, cancels and availability reports
\* for a stored or a missing room, on NumReq slots in any order and running
\* concurrently; a report asks for a window around RacePoint or comes without
\* its dates
AvailWindows == (RaceStarts \X RaceEnds) \cup {<<NoTime, NoTime>>}
AvailRooms == BookableRooms \cup {i \in RoomIds : ~rooms[i].exists}

AvailCreate ==
  \E r \in ReqIds : Arrives(r) /\ CreateOn(r, BookableRooms, Times, Times, {NoAttendees})
AvailCancel == \E r \in ReqIds : Arrives(r) /\ CancelOn(r)
Availability ==
  \E r \in ReqIds, id \in AvailRooms, w \in AvailWindows :
    Arrives(r) /\ AvailabilityFindRoom(r, id, w[1], w[2])
AvailabilityRead == \E r \in ReqIds : AvailabilityFind(r)

NextAvail ==
  \/ AvailCreate \/ CreateAvail \/ CreateSave
  \/ AvailCancel \/ CancelWrite
  \/ Availability \/ AvailabilityRead
  \/ Tick

SpecAvail == Init /\ [][NextAvail]_vars

\* SpecOrder: the requests come one after the other, each when the one
\* before it has been answered: creates for the bookable rooms and at most
\* one update with any patch by any actor
Quiet == \A q \in ReqIds : req[q].pc \in {"idle", "done"}

OrderCreate ==
  \E r \in ReqIds :
    Quiet /\ Arrives(r) /\ CreateOn(r, BookableRooms, Times, Times, {NoAttendees})
OrderPatch == \E r \in ReqIds : Quiet /\ Arrives(r) /\ NotYet("update") /\ PatchOn(r)

NextOrder ==
  \/ OrderCreate \/ CreateAvail \/ CreateSave
  \/ OrderPatch \/ UpdateAvail \/ UpdateWrite
  \/ Tick

SpecOrder == Init /\ [][NextOrder]_vars

\* SpecAtomic: the requests run one at a time, each from its arrival to its
\* response without another request in between, the response of the last one
\* in the first slot; creates for the bookable rooms while fewer than
\* MaxStored reservations are stored, updates by any actor that patch
\* startTime and endTime around RacePoint or purpose and attendees, and
\* cancels
MaxStored == 2
\* the slot of the one request that runs
Serial(r) == \A q \in ReqIds : r <= q

AtomicCreate ==
  \E r \in ReqIds :
    /\ Serial(r)
    /\ Len(reservations) < MaxStored
    /\ \E userId \in Creators, roomId \in BookableRooms,
          startTime \in Times, endTime \in Times :
         createReservationAtomic(r, userId, roomId, startTime, endTime,
                                 NoAttendees, Undefined)
AtomicPatches ==
  {<<startTime, endTime, Undefined, NoAttendees>> :
     startTime \in PatchStarts, endTime \in PatchEnds}
  \cup {<<NoTime, NoTime, "meeting", TooMany - 1>>}
AtomicUpdate ==
  \E r \in ReqIds :
    /\ Serial(r)
    /\ \E actor \in Actors, id \in 1..MaxStored, patch \in AtomicPatches :
         updateReservationAtomic(r, actor[1], actor[2], id, patch[1], patch[2],
                                 patch[3], patch[4], Undefined)
AtomicCancel ==
  \E r \in ReqIds :
    /\ Serial(r)
    /\ \E actor \in Actors, id \in 1..MaxStored :
         cancelReservationAtomic(r, actor[1], actor[2], id)

NextAtomic == AtomicCreate \/ AtomicUpdate \/ AtomicCancel \/ Tick

SpecAtomic == Init /\ [][NextAtomic]_vars

\* ------------------------------------------------------------- properties
\* half-open intervals [a,b) and [c,d) share a point
Overlap(a, b, c, d) == a < d /\ c < b

IsActive(doc) == doc.status = "confirmed" \/ doc.status = "pending"

\* an active reservation of the room, other than `exclude`, overlapping [a,b)
ActiveOverlapIn(db, roomId, a, b, exclude) ==
  \E i \in DOMAIN db :
    /\ i # exclude
    /\ db[i].room = roomId
    /\ IsActive(db[i])
    /\ Overlap(a, b, db[i].startTime, db[i].endTime)

\* every active reservation of the room is an interval: startTime < endTime
ProperActive(db, roomId) ==
  \A i \in DOMAIN db :
    (db[i].room = roomId /\ IsActive(db[i])) => db[i].startTime < db[i].endTime

\* the handler on slot r takes its availability step / its insert step
CreateChecks(r) == req[r].op = "create" /\ req[r].pc = "avail" /\ req'[r] # req[r]
CreateInserts(r) == req[r].op = "create" /\ req[r].pc = "insert" /\ req'[r] # req[r]
UpdateChecks(r) == req[r].op = "update" /\ req[r].pc = "avail" /\ req'[r] # req[r]

Answered(op, result) == \E r \in ReqIds : req[r].op = op /\ req[r].result = result

\* C1: in every reachable state no two distinct active (confirmed or pending)
\* reservations of the same room have overlapping intervals
NoOverlap ==
  \A i, j \in DOMAIN reservations :
    (/\ i # j
     /\ reservations[i].room = reservations[j].room
     /\ IsActive(reservations[i])
     /\ IsActive(reservations[j]))
    => ~Overlap(reservations[i].startTime, reservations[i].endTime,
                reservations[j].startTime, reservations[j].endTime)

\* C2: when the concurrent creates for one room with pairwise-overlapping
\* intervals have all been answered, each with success or the conflict
\* error, exactly one of them has succeeded
RaceExactlyOne ==
  (\A r \in ReqIds : req[r].pc = "done" /\ req[r].result \in {OK, ErrConflict})
  => Cardinality({r \in ReqIds : req[r].result = OK}) = 1

\* C3: a create whose interval overlaps an active reservation of its room at
\* the availability check ends with ConflictError and stores nothing
OverlapRejected ==
  [][\A r \in ReqIds :
       (/\ CreateChecks(r)
        /\ ActiveOverlapIn(reservations, req[r].room,
                           req[r].startTime, req[r].endTime, NoId))
       => (/\ req'[r].pc = "done"
           /\ req'[r].result = ErrConflict
           /\ reservations' = reservations)]_vars

OverlapRejectedReached ==
  /\ Answered("create", ErrConflict)
  /\ \E i \in DOMAIN reservations : IsActive(reservations[i])

\* C4: a create whose interval touches an active reservation of its room at a
\* boundary, and overlaps no active one (each of them an interval with
\* startTime < endTime), passes the availability check; its insert succeeds,
\* adds the confirmed reservation and leaves the others
TouchesActive(db, roomId, a, b) ==
  \E i \in DOMAIN db :
    /\ db[i].room = roomId
    /\ IsActive(db[i])
    /\ (db[i].endTime = a \/ db[i].startTime = b)

BackToBackAllowed ==
  [][\A r \in ReqIds :
       /\ (/\ CreateChecks(r)
           /\ TouchesActive(reservations, req[r].room, req[r].startTime, req[r].endTime)
           /\ ProperActive(reservations, req[r].room)
           /\ ~ActiveOverlapIn(reservations, req[r].room,
                               req[r].startTime, req[r].endTime, NoId))
          => req'[r].pc = "insert"
       /\ CreateInserts(r)
          => (/\ req'[r].result = OK
              /\ Len(reservations') = Len(reservations) + 1
              /\ SubSeq(reservations', 1, Len(reservations)) = reservations
              /\ LET new == reservations'[Len(reservations')]
                 IN /\ new.status = "confirmed"
                    /\ new.room = req[r].room
                    /\ new.startTime = req[r].startTime
                    /\ new.endTime = req[r].endTime)]_vars

BackToBackReached ==
  /\ Answered("create", OK)
  /\ \E i, j \in DOMAIN reservations :
       /\ i < j
       /\ reservations[i].room = reservations[j].room
       /\ IsActive(reservations[i]) /\ IsActive(reservations[j])
       /\ \/ reservations[i].endTime = reservations[j].startTime
          \/ reservations[j].endTime = reservations[i].startTime

\* C5: for a candidate [a,b) with a < b and a stored reservation [c,d) with
\* c < d, the three-clause query matches exactly when a < d and c < b
ThreeClauseIsOverlap ==
  \A i \in DOMAIN reservations : \A a, b \in Times :
    LET c == reservations[i].startTime
        d == reservations[i].endTime
    IN (a < b /\ c < d) => (IntervalQueryMatches(c, d, a, b) <=> (a < d /\ c < b))

\* a stored reservation strictly contains a candidate (only the third clause
\* matches) while a request has been judged against it
ThreeClauseReached ==
  /\ Answered("create", ErrConflict)
  /\ \E i \in DOMAIN reservations : \E a, b \in Times :
       /\ reservations[i].startTime < a /\ a < b /\ b < reservations[i].endTime
       /\ IntervalQueryMatches(reservations[i].startTime, reservations[i].endTime, a, b)

\* C6: a successful cancel leaves the reservation cancelled, and a create for
\* the room and interval of a cancelled reservation that overlaps no active
\* one (each of them an interval with startTime < endTime) passes the
\* availability check and is inserted
CancelFreesInterval ==
  [][\A r \in ReqIds :
       /\ (req[r].op = "cancel" /\ req[r].pc = "save" /\ req'[r].result = OK)
          => reservations'[req[r].id].status = "cancelled"
       /\ (/\ CreateChecks(r)
           /\ \E i \in DOMAIN reservations :
                /\ reservations[i].status = "cancelled"
                /\ reservations[i].room = req[r].room
                /\ reservations[i].startTime = req[r].startTime
                /\ reservations[i].endTime = req[r].endTime
           /\ ProperActive(reservations, req[r].room)
           /\ ~ActiveOverlapIn(reservations, req[r].room,
                               req[r].startTime, req[r].endTime, NoId))
          => req'[r].pc = "insert"
       /\ CreateInserts(r)
          => (req'[r].result = OK /\ Len(reservations') = Len(reservations) + 1)]_vars

CancelFreesReached ==
  /\ Answered("cancel", OK)
  /\ Answered("create", OK)
  /\ \E i, j \in DOMAIN reservations :
       /\ i < j
       /\ reservations[i].status = "cancelled"
       /\ reservations[j].status = "confirmed"
       /\ reservations[i].room = reservations[j].room
       /\ reservations[i].startTime = reservations[j].startTime
       /\ reservations[i].endTime = reservations[j].endTime

\* C7: the availability check of create and of update (which leaves out the
\* reservation itself) ends with ConflictError whenever a confirmed or pending
\* reservation of the room overlaps the interval asked for, only when the
\* room has a confirmed or pending reservation at all, and, the active
\* reservations of the room being intervals with startTime < endTime, only
\* when one of them overlaps it
CheckedStart(rq) ==
  IF rq.op = "update" /\ rq.startTime = NoTime THEN rq.doc.startTime ELSE rq.startTime

CheckedEnd(rq) ==
  IF rq.op = "update" /\ rq.endTime = NoTime THEN rq.doc.endTime ELSE rq.endTime

CheckedRoom(rq) == IF rq.op = "update" THEN rq.doc.room ELSE rq.room
CheckedExclude(rq) == IF rq.op = "update" THEN rq.id ELSE NoId

ConflictCountsActiveOnly ==
  [][\A r \in ReqIds :
       (CreateChecks(r) \/ UpdateChecks(r))
       => LET overlapped == ActiveOverlapIn(reservations, CheckedRoom(req[r]),
                              CheckedStart(req[r]), CheckedEnd(req[r]),
                              CheckedExclude(req[r]))
          IN /\ overlapped => req'[r].result = ErrConflict
             /\ req'[r].result = ErrConflict
                => \E i \in DOMAIN reservations :
                     /\ i # CheckedExclude(req[r])
                     /\ reservations[i].room = CheckedRoom(req[r])
                     /\ IsActive(reservations[i])
             /\ (ProperActive(reservations, CheckedRoom(req[r]))
                 /\ req'[r].result = ErrConflict) => overlapped]_vars

\* a request was refused while the only active reservations are pending
PendingBlocksReached ==
  /\ \E r \in ReqIds : req[r].result = ErrConflict
  /\ \E i \in DOMAIN reservations : reservations[i].status = "pending"
  /\ \A i \in DOMAIN reservations : reservations[i].status # "confirmed"

\* C8: once a reservation is cancelled or completed, no step changes its status
TerminalStatus ==
  [][\A i \in DOMAIN reservations :
       reservations[i].status \in {"cancelled", "completed"}
       => reservations'[i].status = reservations[i].status]_vars

\* C9: the reservation a create inserts has totalPrice = ceil(hours) x the
\* pricePerHour read by that request: k hours give k x rate, more than k and
\* less than k+1 hours give (k+1) x rate
CeilHours(d) ==
  CHOOSE k \in 0..(MaxTime + 1) : k * TicksPerHour >= d /\ (k - 1) * TicksPerHour < d

PriceIsCeilHours ==
  [][\A r \in ReqIds :
       (CreateInserts(r) /\ req'[r].result = OK)
       => LET new == reservations'[Len(reservations')]
              d == new.endTime - new.startTime
              rate == req[r].roomDoc.pricePerHour
          IN /\ rate = rooms[new.room].pricePerHour
             /\ new.totalPrice = CeilHours(d) * rate
             /\ \A k \in 0..MaxTime :
                  /\ d = k * TicksPerHour => new.totalPrice = k * rate
                  /\ (k * TicksPerHour < d /\ d < (k + 1) * TicksPerHour)
                     => new.totalPrice = (k + 1) * rate]_vars

\* a stored reservation of more than one hour and a part of the next, priced
\* for the started hour as well
PartialHourReached ==
  /\ Answered("create", OK)
  /\ \E i \in DOMAIN reservations :
       LET d == reservations[i].endTime - reservations[i].startTime
       IN /\ d > TicksPerHour
          /\ d % TicksPerHour # 0
          /\ reservations[i].totalPrice =
               ((d \div TicksPerHour) + 1) * rooms[reservations[i].room].pricePerHour

\* C10: createReservation answers with the error of the first failing check
\* in the order: end not after start, start in the past, room not found,
\* room inactive, too many attendees, interval conflict
ValidationOrder ==
  [][\A r \in ReqIds :
       /\ (req[r].pc = "idle" /\ req'[r].op = "create")
          => \A userId \in Creators, roomId \in RoomIds, startTime \in Times,
                endTime \in Times, attendees \in AttendeeCounts :
               CreateFindRoom(r, userId, roomId, startTime, endTime, attendees, Undefined)
               => LET f1 == startTime >= endTime
                      f2 == startTime < now
                      f3 == ~rooms[roomId].exists
                      f4 == ~rooms[roomId].isActive
                      f5 == attendees # NoAttendees /\ attendees > rooms[roomId].capacity
                      result == req'[r].result
                  IN /\ f1 => result = ErrEndNotAfterStart
                     /\ (~f1 /\ f2) => result = ErrStartInPast
                     /\ (~f1 /\ ~f2 /\ f3) => result = ErrRoomNotFound
                     /\ (~f1 /\ ~f2 /\ ~f3 /\ f4) => result = ErrRoomInactive
                     /\ (~f1 /\ ~f2 /\ ~f3 /\ ~f4 /\ f5) => result = ErrCapacity
                     /\ (~f1 /\ ~f2 /\ ~f3 /\ ~f4 /\ ~f5) => req'[r].pc = "avail"
       /\ (req'[r].op = "create" /\ req'[r].result = ErrConflict /\ req'[r] # req[r])
          => CreateChecks(r)
       /\ (/\ CreateChecks(r)
           /\ ActiveOverlapIn(reservations, req[r].room,
                              req[r].startTime, req[r].endTime, NoId))
          => req'[r].result = ErrConflict]_vars

\* the three requests were answered with three different errors of the order
ValidationOrderReached ==
  /\ Answered("create", ErrEndNotAfterStart)
  /\ Answered("create", ErrRoomNotFound)
  /\ Answered("create", ErrCapacity)

\* the business error kind of an error, by the condition that raised it
ErrorKind(result) ==
  CASE result \in {ErrEndNotAfterStart, ErrStartInPast} -> "InvalidInterval"
    [] result = ErrRoomNotFound -> "ResourceNotFound"
    [] result = ErrRoomInactive -> "ResourceUnavailable"
    [] result = ErrCapacity -> "CapacityExceeded"
    [] result = ErrConflict -> "IntervalConflict"
    [] result = ErrReservationNotFound -> "NotFound"
    [] result \in {ErrForbiddenUpdate, ErrForbiddenCancel, ErrForbiddenStatus} -> "Forbidden"
    [] result \in {ErrPastReservation, ErrAlreadyCancelled} -> "InvalidState"
    [] OTHER -> "none"

\* C11: two requests answered with business errors of different kinds are
\* answered with errors of different classes; in particular the class of an
\* interval conflict is the class of no other kind
ErrorKindsDistinct ==
  \A r, q \in ReqIds :
    (/\ req[r].pc = "done" /\ req[q].pc = "done"
     /\ ErrorKind(req[r].result) # "none" /\ ErrorKind(req[q].result) # "none"
     /\ ErrorKind(req[r].result) # ErrorKind(req[q].result))
    => ErrorClass(req[r].result) # ErrorClass(req[q].result)

\* C12: a create that carries an attendee count and passes the earlier checks
\* passes the capacity check exactly when attendees <= room.capacity;
\* attendees = capacity passes, attendees = capacity + 1 ends with the capacity
\* error and stores nothing
CapacityBoundary ==
  [][\A r \in ReqIds :
       (req[r].pc = "idle" /\ req'[r].op = "create")
       => \A userId \in Creators, roomId \in BookableRooms, startTime \in Times,
             endTime \in Times, attendees \in CapacityCounts :
            (/\ CreateFindRoom(r, userId, roomId, startTime, endTime, attendees, Undefined)
             /\ startTime < endTime /\ startTime >= now
             /\ rooms[roomId].exists /\ rooms[roomId].isActive)
            => LET capacity == rooms[roomId].capacity
               IN /\ (req'[r].pc = "avail") <=> (attendees <= capacity)
                  /\ (req'[r].result = ErrCapacity) <=> (attendees > capacity)
                  /\ attendees = capacity => req'[r].pc = "avail"
                  /\ attendees = capacity + 1
                     => (/\ req'[r].pc = "done"
                         /\ req'[r].result = ErrCapacity
                         /\ reservations' = reservations)]_vars

\* a reservation that fills its room is stored and a request for one attendee
\* more than a room holds was refused
CapacityBoundaryReached ==
  /\ Answered("create", ErrCapacity)
  /\ \E i \in DOMAIN reservations :
       reservations[i].attendees = rooms[reservations[i].room].capacity

\* C13: a step of a createReservation handler leaves the stored reservations
\* and the rooms as they were, except the final insert that answers with
\* success, which appends one reservation; so a create that ends with an error
\* has written nothing
FailedCreateWritesNothing ==
  [][\A r \in ReqIds :
       (req'[r] # req[r] /\ req'[r].op = "create")
       => /\ rooms' = rooms
          /\ IF req[r].pc = "insert" /\ req'[r].result = OK
               THEN /\ Len(reservations') = Len(reservations) + 1
                    /\ SubSeq(reservations', 1, Len(reservations)) = reservations
               ELSE reservations' = reservations]_vars

\* two creates ended with an error, one at the room checks and one at the
\* availability check, and the store holds the one reservation that succeeded
FailedCreateReached ==
  /\ Answered("create", ErrConflict)
  /\ Answered("create", ErrCapacity)
  /\ Len(reservations) = 1

\* C14: the insert of a successful create appends exactly one reservation,
\* confirmed, of the requester, for the room and interval asked for, and from
\* then on the availability query refuses every interval of that room that
\* overlaps it
CreateStoresConfirmed ==
  [][\A r \in ReqIds :
       (CreateInserts(r) /\ req'[r].result = OK)
       => /\ Len(reservations') = Len(reservations) + 1
          /\ SubSeq(reservations', 1, Len(reservations)) = reservations
          /\ LET new == reservations'[Len(reservations')]
             IN /\ new.status = "confirmed"
                /\ new.user = req[r].userId
                /\ new.room = req[r].room
                /\ new.startTime = req[r].startTime
                /\ new.endTime = req[r].endTime
                /\ \A a, b \in Times :
                     (a < b /\ Overlap(a, b, new.startTime, new.endTime))
                     => ~isRoomAvailable(reservations', new.room, a, b, NoId)]_vars

\* the only stored reservation is the confirmed one of a successful create,
\* and the availability query counts it
CreateStoresConfirmedReached ==
  /\ Answered("create", OK)
  /\ Len(reservations) = 1
  /\ reservations[1].status = "confirmed"
  /\ reservations[1].user \in Creators
  /\ ~isRoomAvailable(reservations, reservations[1].room,
                      reservations[1].startTime, reservations[1].endTime, NoId)

\* C15: in every reachable state an update (whatever its patch) or a cancel
\* sent by an actor who is neither the user of the reservation nor an admin is
\* answered at once with ForbiddenError, whatever the status of the
\* reservation, and the step that answers a request writes nothing
IsStranger(actor, id) == ~actor[2] /\ reservations[id].user # actor[1]

StrangerForbidden ==
  /\ [](\A actor \in Actors, id \in DOMAIN reservations :
          IsStranger(actor, id)
          => /\ LET out == CancelFindResult(CancelRequest(actor[1], actor[2], id))
                IN out.pc = "done" /\ out.result = ErrForbiddenCancel
             /\ \A startTime \in PatchStarts, endTime \in PatchEnds,
                   purpose \in PatchPurposes, attendees \in PatchAttendees,
                   status \in PatchStatuses :
                  LET out == UpdateFindResult(UpdateRequest(actor[1], actor[2], id,
                                startTime, endTime, purpose, attendees, status))
                  IN out.pc = "done" /\ out.result = ErrForbiddenUpdate)
  /\ [][\A r \in ReqIds :
         (req[r].pc = "idle" /\ req'[r] # req[r])
         => (reservations' = reservations /\ rooms' = rooms)]_vars

\* another user's update and cancel of the one stored reservation were both
\* refused, and the reservation is as its create stored it
StrangerForbiddenReached ==
  /\ Answered("update", ErrForbiddenUpdate)
  /\ Answered("cancel", ErrForbiddenCancel)
  /\ Len(reservations) = 1
  /\ reservations[1].status = "confirmed"

\* C16: the save of a cancel that passed its checks (owner or admin, status
\* not cancelled, the reservation an interval with startTime < endTime)
\* answers with success and sets the status of that reservation
\* to cancelled; every other field of it, every other reservation and every
\* room stay as they are, and no record is removed
CancelSetsStatusOnly ==
  [][\A r \in ReqIds :
       (/\ req[r].op = "cancel" /\ req[r].pc = "save" /\ req'[r] # req[r]
        /\ req[r].doc.startTime < req[r].doc.endTime)
       => /\ req'[r].result = OK
          /\ req[r].id \in DOMAIN reservations
          /\ reservations' = [reservations EXCEPT ![req[r].id].status = "cancelled"]
          /\ rooms' = rooms]_vars

\* a cancel succeeded on one of two stored reservations: it is cancelled and
\* keeps its interval and price, the other is still confirmed
CancelSetsStatusOnlyReached ==
  /\ Answered("cancel", OK)
  /\ Len(reservations) = 2
  /\ \E i, j \in DOMAIN reservations :
       /\ reservations[i].status = "cancelled"
       /\ reservations[i].startTime < reservations[i].endTime
       /\ reservations[i].totalPrice > 0
       /\ reservations[j].status = "confirmed"

\* C17: a cancel sent by the owner or an admin for a reservation whose stored
\* status is cancelled is answered at once with the already-cancelled error,
\* not with success, and nothing stored changes
CancelTwiceRejected ==
  [][\A r \in ReqIds :
       (req[r].pc = "idle" /\ req'[r].op = "cancel")
       => \A actor \in Actors, id \in DOMAIN reservations :
            (/\ CancelFind(r, actor[1], actor[2], id)
             /\ reservations[id].status = "cancelled"
             /\ ~IsStranger(actor, id))
            => (/\ req'[r].pc = "done"
                /\ req'[r].result = ErrAlreadyCancelled
                /\ req'[r].result # OK
                /\ reservations' = reservations)]_vars

\* the same reservation was cancelled twice: the first cancel succeeded, the
\* second was refused, and the reservation is cancelled
CancelTwiceReached ==
  /\ Answered("cancel", OK)
  /\ Answered("cancel", ErrAlreadyCancelled)
  /\ Len(reservations) = 1
  /\ reservations[1].status = "cancelled"

\* C18: in every reachable state an update sent by the non-admin owner of a
\* reservation whose stored startTime is earlier than now is answered at once
\* with the past-reservation error, whatever the patch, and the same patch
\* sent by an admin is not answered with that error; the step that answers a
\* request writes nothing
PastUpdateRejected ==
  /\ [](\A id \in DOMAIN reservations :
          reservations[id].startTime < now
          => \A startTime \in PatchStarts, endTime \in PatchEnds,
                purpose \in PatchPurposes, attendees \in PatchAttendees,
                status \in PatchStatuses :
               /\ LET out == UpdateFindResult(UpdateRequest(reservations[id].user, FALSE,
                                id, startTime, endTime, purpose, attendees, status))
                  IN out.pc = "done" /\ out.result = ErrPastReservation
               /\ \A actor \in Actors :
                    actor[2]
                    => UpdateFindResult(UpdateRequest(actor[1], TRUE, id, startTime,
                          endTime, purpose, attendees, status)).result
                       # ErrPastReservation)
  /\ [][\A r \in ReqIds :
         (req[r].pc = "idle" /\ req'[r].op = "update")
         => (reservations' = reservations /\ rooms' = rooms)]_vars

\* the owner's update of a reservation that has started was refused and the
\* reservation is as its create stored it
PastUpdateReached ==
  /\ Answered("update", ErrPastReservation)
  /\ Len(reservations) = 1
  /\ reservations[1].startTime < now
  /\ reservations[1].status = "confirmed"
  /\ reservations[1].purpose = Undefined

\* C19 as claimed: in every reachable state an update sent by a non-admin
\* (owner included) whose patch carries a status, when it is answered at its
\* first step, is answered with ForbiddenError
NonAdminStatusPatchForbidden ==
  \A actor \in Actors, id \in DOMAIN reservations :
    ~actor[2]
    => \A startTime \in PatchStarts, endTime \in PatchEnds,
          purpose \in PatchPurposes, attendees \in PatchAttendees,
          status \in ReservationStatus :
         LET out == UpdateFindResult(UpdateRequest(actor[1], actor[2], id, startTime,
                       endTime, purpose, attendees, status))
         IN out.pc = "done" => ErrorClass(out.result) = "ForbiddenError"

\* C19 amended: an update sent by a non-admin whose patch carries a status
\* never reaches its save: it ends with an error, which is ForbiddenError when
\* the actor is not the owner, and also when the owner's request passes the
\* checks made before the status check (reservation not started, new start
\* before new end, no conflict, attendees within capacity); no step of a
\* non-admin's update changes a status, and a step of a non-admin that changes
\* one is the save of a cancel of the actor's own reservation
NonAdminNeverSetsStatus ==
  /\ [](\A actor \in Actors, id \in DOMAIN reservations :
          ~actor[2]
          => \A startTime \in PatchStarts, endTime \in PatchEnds,
                purpose \in PatchPurposes, attendees \in PatchAttendees,
                status \in ReservationStatus :
               LET out == UpdateFindResult(UpdateRequest(actor[1], actor[2], id,
                             startTime, endTime, purpose, attendees, status))
                   doc == reservations[id]
               IN /\ out.pc \in {"done", "avail"}
                  /\ out.pc = "done" => out.result # OK
                  /\ IsStranger(actor, id) => out.result = ErrForbiddenUpdate
                  /\ (/\ ~IsStranger(actor, id)
                      /\ doc.startTime >= now
                      /\ startTime = NoTime /\ endTime = NoTime
                      /\ (attendees = NoAttendees
                          \/ attendees <= rooms[doc.room].capacity))
                     => out.result = ErrForbiddenStatus)
  /\ [][\A r \in ReqIds :
         /\ (/\ UpdateChecks(r)
             /\ ~req[r].isAdmin
             /\ req[r].status # Undefined)
            => (/\ req'[r].pc = "done"
                /\ req'[r].result \in {ErrConflict, ErrCapacity, ErrForbiddenStatus}
                /\ (/\ req'[r].result # ErrConflict
                    /\ (req[r].attendees = NoAttendees
                        \/ req[r].attendees <= req[r].roomDoc.capacity))
                   => req'[r].result = ErrForbiddenStatus
                /\ reservations' = reservations)
         /\ (/\ req'[r] # req[r]
             /\ ~req[r].isAdmin
             /\ \E i \in DOMAIN reservations :
                  reservations'[i].status # reservations[i].status)
            => (/\ req[r].op = "cancel"
                /\ req[r].pc = "save"
                /\ reservations[req[r].id].user = req[r].userId
                /\ \A i \in DOMAIN reservations :
                     reservations'[i].status # reservations[i].status
                     => (i = req[r].id /\ reservations'[i].status = "cancelled"))]_vars

\* the owner's update carrying a status was refused as forbidden, and the
\* owner's cancel then changed the status
NonAdminStatusReached ==
  /\ Answered("update", ErrForbiddenStatus)
  /\ Answered("cancel", OK)
  /\ Len(reservations) = 1
  /\ reservations[1].status = "cancelled"

\* C20: an update whose patch carries startTime and/or endTime, sent by an
\* actor who passes the permission and past checks, takes the missing bound
\* from the stored reservation and is answered with the invalid-interval
\* error when new start >= new end, else goes on to the availability check;
\* that check leaves out the reservation itself: it ends with ConflictError,
\* writing nothing, when another active reservation of the room overlaps the
\* new interval, and otherwise (the active reservations being intervals) it
\* accepts the new interval, also when it overlaps the reservation's own
PatchTimes == {NoTime} \cup Times

UpdateMovesInterval ==
  /\ [](\A actor \in Actors, id \in DOMAIN reservations :
          (actor[2] \/ (reservations[id].user = actor[1]
                         /\ reservations[id].startTime >= now))
          => \A startTime \in PatchTimes, endTime \in PatchTimes :
               (startTime # NoTime \/ endTime # NoTime)
               => LET newStart == IF startTime # NoTime THEN startTime
                                  ELSE reservations[id].startTime
                      newEnd == IF endTime # NoTime THEN endTime
                                ELSE reservations[id].endTime
                      out == UpdateFindResult(UpdateRequest(actor[1], actor[2], id,
                                startTime, endTime, Undefined, NoAttendees, Undefined))
                  IN IF newStart >= newEnd
                       THEN out.pc = "done" /\ out.result = ErrEndNotAfterStart
                       ELSE /\ out.pc = "avail"
                            /\ out.id = id
                            /\ out.doc = reservations[id]
                            /\ NewStartTime(out) = newStart
                            /\ NewEndTime(out) = newEnd)
  /\ [][\A r \in ReqIds :
         UpdateChecks(r)
         => LET newStart == CheckedStart(req[r])
                newEnd == CheckedEnd(req[r])
                room == req[r].doc.room
                others == ActiveOverlapIn(reservations, room, newStart, newEnd, req[r].id)
            IN /\ others => (/\ req'[r].pc = "done"
                             /\ req'[r].result = ErrConflict
                             /\ reservations' = reservations)
               /\ (~others /\ ProperActive(reservations, room))
                  => (/\ req'[r].result # ErrConflict
                      /\ req'[r].pc = "save"
                         => (/\ req'[r].doc.startTime = newStart
                             /\ req'[r].doc.endTime = newEnd))]_vars

\* an update was refused because its new interval overlaps the other active
\* reservation of the room, and both reservations are stored as intervals
UpdateMovesIntervalReached ==
  /\ Answered("update", ErrConflict)
  /\ Len(reservations) = 2
  /\ reservations[1].room = reservations[2].room
  /\ IsActive(reservations[1]) /\ IsActive(reservations[2])
  /\ ~Overlap(reservations[1].startTime, reservations[1].endTime,
              reservations[2].startTime, reservations[2].endTime)

\* C21: the totalPrice of a stored reservation changes only in the save of
\* a successful update that changes its startTime or endTime, and is then
\* ceil(new duration in hours) x the pricePerHour of the room; no other step
\* (update of purpose, attendees or status, cancel, updateRoom) changes it
PriceChangesOnlyWithInterval ==
  [][\A i \in DOMAIN reservations :
       reservations'[i].totalPrice # reservations[i].totalPrice
       => /\ \/ reservations'[i].startTime # reservations[i].startTime
             \/ reservations'[i].endTime # reservations[i].endTime
          /\ \E r \in ReqIds :
               /\ req[r].op = "update" /\ req[r].pc = "save" /\ req[r].id = i
               /\ req'[r].result = OK
               /\ reservations'[i].totalPrice =
                    CeilHours(reservations'[i].endTime - reservations'[i].startTime)
                      * req[r].roomDoc.pricePerHour]_vars

\* C22: an update that moves a reservation re-checks and saves as one atomic
\* step with respect to the other writers of the room: whenever the save of an
\* update that patched startTime or endTime succeeds, the interval it leaves
\* stored overlaps no other active reservation of the room (the store having
\* no overlap before the save)
UpdateSaveIsAtomic ==
  [][\A r \in ReqIds :
       (/\ NoOverlap
        /\ req[r].op = "update" /\ req[r].pc = "save"
        /\ req'[r].result = OK
        /\ req[r].modified \cap {"startTime", "endTime"} # {}
        /\ IsActive(reservations'[req[r].id]))
       => ~ActiveOverlapIn(reservations', req[r].doc.room,
                           reservations'[req[r].id].startTime,
                           reservations'[req[r].id].endTime, req[r].id)]_vars

\* C23: an update that ends with an error persists none of its patch: every
\* step of an updateReservation handler other than the one that answers with
\* success leaves every stored reservation and every room as it was, also
\* when the step had already accepted the interval of the patch and then
\* failed on its attendees or its status
FailedUpdateWritesNothing ==
  [][\A r \in ReqIds :
       (/\ req'[r] # req[r]
        /\ req'[r].op = "update"
        /\ req'[r].result # OK)
       => /\ reservations' = reservations
          /\ rooms' = rooms]_vars

\* an update was refused for its attendee count, another path of the patch
\* notwithstanding, and the one stored reservation is as its create left it
FailedUpdateReached ==
  /\ Answered("update", ErrCapacity)
  /\ Answered("create", OK)
  /\ Len(reservations) = 1
  /\ reservations[1].status = "confirmed"
  /\ reservations[1].attendees = NoAttendees
  /\ reservations[1].purpose = Undefined
  /\ reservations[1].totalPrice =
       CeilHours(reservations[1].endTime - reservations[1].startTime)
         * rooms[reservations[1].room].pricePerHour

\* C24: in every reachable state every stored reservation that has an
\* attendee count, and whose room is stored, has attendees <= the capacity of
\* its room
AttendeesWithinCapacity ==
  \A i \in DOMAIN reservations :
    (/\ reservations[i].attendees # NoAttendees
     /\ rooms[reservations[i].room].exists)
    => reservations[i].attendees <= rooms[reservations[i].room].capacity

\* the room has a confirmed or pending reservation that ends after now
HasActiveFuture(db, id) ==
  \E i \in DOMAIN db :
    db[i].room = id /\ IsActive(db[i]) /\ db[i].endTime > now

\* C25: a deleteRoom for a room that has a confirmed or pending reservation
\* ending after now is rejected and the room stays stored; a room is removed
\* only when it has no such reservation
DeleteRoomOnlyWhenFree ==
  [][/\ \A r \in ReqIds, id \in BookableRooms :
          (DeleteRoomCount(r, id) /\ HasActiveFuture(reservations, id))
          => /\ req'[r].result = ErrRoomHasReservations
             /\ rooms' = rooms
     /\ \A id \in RoomIds :
          (rooms[id].exists /\ ~rooms'[id].exists)
          => ~HasActiveFuture(reservations, id)]_vars

\* the reservations the report of the window [startDate, endDate) is about
InWindow(db, id, startDate, endDate) ==
  {i \in DOMAIN db :
     /\ db[i].room = id
     /\ IsActive(db[i])
     /\ db[i].startTime < endDate
     /\ db[i].endTime > startDate}

OpRoom(rq) == IF rq.op = "create" THEN rq.room ELSE rq.doc.room

\* the store as seen from one room: the reservations of every other room blank
HideOthers(db, roomId) ==
  [i \in DOMAIN db |-> IF db[i].room = roomId THEN db[i] ELSE NoDoc]

\* C27: operations on different rooms are independent: the availability step
\* of a create or an update on a room has the outcome it would have with the
\* reservations of every other room blanked out, and no step of a create, an
\* update or a cancel changes a reservation of another room
OtherRoomsIrrelevant ==
  [][\A r \in ReqIds :
       /\ (CreateChecks(r) \/ UpdateChecks(r))
          => (req'[r].result = ErrConflict
              <=> ~isRoomAvailable(HideOthers(reservations, CheckedRoom(req[r])),
                                   CheckedRoom(req[r]), CheckedStart(req[r]),
                                   CheckedEnd(req[r]), CheckedExclude(req[r])))
       /\ (req'[r] # req[r])
          => \A i \in DOMAIN reservations :
               reservations[i].room # OpRoom(req[r])
               => reservations'[i] = reservations[i]]_vars

\* two rooms hold confirmed reservations of overlapping intervals, both
\* creates answered with success, and a third request on one of the rooms has
\* been answered with the conflict error
OtherRoomsReached ==
  /\ Len(reservations) = 2
  /\ reservations[1].room # reservations[2].room
  /\ IsActive(reservations[1]) /\ IsActive(reservations[2])
  /\ Overlap(reservations[1].startTime, reservations[1].endTime,
             reservations[2].startTime, reservations[2].endTime)
  /\ \A r \in ReqIds : req[r].pc = "done"
  /\ Cardinality({r \in ReqIds : req[r].op = "create" /\ req[r].result = OK}) = 2
  /\ \E r \in ReqIds : req[r].result = ErrConflict

\* C28: booking is allowed only on an active room: a create passes its room
\* checks only for a room whose isActive is true, an updateRoom changes no
\* reservation, and a reservation is inserted only for a room that is active
\* when the insert is written
BookingOnlyWhenActive ==
  [][/\ \A r \in ReqIds :
          (req[r].pc = "idle" /\ req'[r].op = "create" /\ req'[r].pc = "avail")
          => rooms[req'[r].room].isActive
     /\ \A r \in ReqIds :
          (req'[r].op = "updateRoom" /\ req'[r] # req[r])
          => reservations' = reservations
     /\ \A r \in ReqIds :
          CreateInserts(r)
          => \A i \in DOMAIN reservations' :
               i \notin DOMAIN reservations => rooms[reservations'[i].room].isActive]_vars

\* C29: no step removes a reservation record: the stored reservations never
\* get fewer, every stored id keeps its requester and its room, and the save of
\* a successful cancel leaves its reservation stored with status cancelled
NoRecordRemoved ==
  [][/\ Len(reservations') >= Len(reservations)
     /\ \A i \in DOMAIN reservations :
          /\ i \in DOMAIN reservations'
          /\ reservations'[i].user = reservations[i].user
          /\ reservations'[i].room = reservations[i].room
     /\ \A r \in ReqIds :
          (req[r].op = "cancel" /\ req[r].pc = "save" /\ req'[r].result = OK)
          => /\ req[r].id \in DOMAIN reservations'
             /\ reservations'[req[r].id].status = "cancelled"]_vars

\* a reservation was cancelled and its room then deleted: the record is still
\* stored, cancelled, and refers to the room that is gone
NoRecordRemovedReached ==
  /\ Answered("cancel", OK)
  /\ Answered("deleteRoom", OK)
  /\ Len(reservations) = 1
  /\ reservations[1].status = "cancelled"
  /\ ~rooms[reservations[1].room].exists

\* C30: when every request runs without interleaving, creates, updates that
\* patch startTime, endTime, purpose or attendees, and cancels keep the
\* intervals of the active reservations of one room disjoint: no active
\* reservation is overlapped by another active reservation of its room
AtomicKeepsDisjoint ==
  \A i \in DOMAIN reservations :
    IsActive(reservations[i])
    => ~ActiveOverlapIn(reservations, reservations[i].room,
                        reservations[i].startTime, reservations[i].endTime, i)

\* an update has just moved or relabelled a reservation with success: the
\* room holds two active reservations back to back, the second one ending
\* where the first begins and carrying the purpose of a patch
AtomicDisjointReached ==
  /\ \E r \in ReqIds : Serial(r) /\ req[r].op = "update" /\ req[r].result = OK
  /\ Len(reservations) = 2
  /\ reservations[1].room = reservations[2].room
  /\ IsActive(reservations[1]) /\ IsActive(reservations[2])
  /\ reservations[2].endTime = reservations[1].startTime
  /\ reservations[2].startTime < reservations[2].endTime
  /\ reservations[2].purpose = "meeting"

\* C31: in every reachable state every stored reservation is an interval:
\* its startTime is before its endTime
StoredIntervalsProper ==
  \A i \in DOMAIN reservations :
    reservations[i].startTime < reservations[i].endTime

\* the first check, in the order not found, stranger, started, interval,
\* conflict, capacity, status, that the patch fails on the stored state;
\* "none" when it passes them all
FirstFailing(actor, id, startTime, endTime, attendees, status) ==
  IF id \notin DOMAIN reservations THEN ErrReservationNotFound
  ELSE LET doc == reservations[id]
           timed == startTime # NoTime \/ endTime # NoTime
           newStart == IF startTime # NoTime THEN startTime ELSE doc.startTime
           newEnd == IF endTime # NoTime THEN endTime ELSE doc.endTime
       IN IF IsStranger(actor, id) THEN ErrForbiddenUpdate
          ELSE IF ~actor[2] /\ doc.startTime < now THEN ErrPastReservation
          ELSE IF timed /\ newStart >= newEnd THEN ErrEndNotAfterStart
          ELSE IF timed /\ ActiveOverlapIn(reservations, doc.room, newStart, newEnd, id)
            THEN ErrConflict
          ELSE IF attendees # NoAttendees /\ attendees > rooms[doc.room].capacity
            THEN ErrCapacity
          ELSE IF status # Undefined /\ ~actor[2] THEN ErrForbiddenStatus
          ELSE "none"

\* C32: updateReservation reports the first failing check in the order
\* reservation not found, actor neither owner nor admin, non-admin on a
\* started reservation, new start >= new end, interval conflict, attendees
\* over the capacity, non-admin patch with a status: in every state in which
\* an update can arrive and for every patch, the handler run up to its save
\* answers with that error, and goes on to save when no check fails; the
\* step of a handler that checks the availability answers with the first of
\* conflict, capacity and status that fails
UpdateReportsFirstFailing ==
  /\ []((Quiet /\ NotYet("update")) =>
       \A actor \in Actors, id \in ResIds, startTime \in PatchStarts, endTime \in PatchEnds,
          attendees \in PatchAttendees, status \in PatchStatuses :
         LET rq1 == UpdateFindResult(UpdateRequest(actor[1], actor[2], id, startTime, endTime,
                                                   Undefined, attendees, status))
             rq2 == IF rq1.pc = "avail" THEN UpdateCheckResult(rq1) ELSE rq1
             first == FirstFailing(actor, id, startTime, endTime, attendees, status)
         IN /\ rq2.result = first
            /\ (first = "none") <=> (rq2.pc = "save")
            /\ (rq1.pc = "avail") => first \notin {ErrReservationNotFound, ErrForbiddenUpdate,
                                                   ErrPastReservation, ErrEndNotAfterStart})
  /\ [][\A r \in ReqIds :
          UpdateChecks(r)
          => req'[r].result =
               IF ActiveOverlapIn(reservations, req[r].doc.room, CheckedStart(req[r]),
                                  CheckedEnd(req[r]), req[r].id)
                 THEN ErrConflict
               ELSE IF /\ req[r].attendees # NoAttendees
                       /\ req[r].attendees > req[r].roomDoc.capacity
                 THEN ErrCapacity
               ELSE IF req[r].status # Undefined /\ ~req[r].isAdmin
                 THEN ErrForbiddenStatus
               ELSE "none"]_vars

\* an owner's update whose patch carries a status and too many attendees has
\* passed the first four checks and stands before the availability check
\* with an interval that another confirmed reservation of the room overlaps
UpdateOrderReached ==
  \E r \in ReqIds :
    /\ req[r].op = "update" /\ req[r].pc = "avail"
    /\ ~req[r].isAdmin /\ req[r].doc.user = req[r].userId
    /\ req[r].status # Undefined
    /\ req[r].attendees > req[r].roomDoc.capacity
    /\ ActiveOverlapIn(reservations, req[r].doc.room,
                       CheckedStart(req[r]), CheckedEnd(req[r]), req[r].id)

\* C33: of the cancels sent for one reservation that nothing sets back to
\* confirmed or pending (one reservation is stored and no update was sent),
\* at most one is answered with success
CancelSucceedsOnce ==
  (Len(reservations) = 1 /\ NotYet("update"))
  => Cardinality({r \in ReqIds : req[r].op = "cancel" /\ req[r].result = OK}) <= 1

\* C34: a reservation whose stored status is cancelled becomes confirmed or
\* pending again only in the save of an update sent by an admin; no step of a
\* request of a non-admin does it, whatever copy of the reservation the
\* request has loaded
CancelledStaysCancelled ==
  [][\A i \in DOMAIN reservations :
       (reservations[i].status = CANCELLED /\ IsActive(reservations'[i]))
       => \E r \in ReqIds :
            /\ req[r].op = "update" /\ req[r].pc = "save"
            /\ req[r].id = i
            /\ req[r].isAdmin]_vars

\* a cancel has been answered with success and the reservation is stored as
\* cancelled, while an update of its owner that loaded it as confirmed, with
\* a changed path, stands before its save
StaleOwnerSaveReached ==
  \E r \in ReqIds :
    /\ Answered("cancel", OK)
    /\ req[r].op = "update" /\ req[r].pc = "save"
    /\ ~req[r].isAdmin
    /\ req[r].modified # {}
    /\ req[r].doc.status = CONFIRMED
    /\ reservations[req[r].id].status = CANCELLED

\* C35: in every reachable state every confirmed or pending reservation that
\* ends after now refers to a room that is stored
ActiveReservationHasRoom ==
  \A i \in DOMAIN reservations :
    (IsActive(reservations[i]) /\ reservations[i].endTime > now)
    => rooms[reservations[i].room].exists

\* C36: the availability report and the admission check agree: in every
\* reachable state, for every room and every window [s,e) with s < e, the
\* report has no booked slot exactly when isRoomAvailable holds for the window
ReportAgreesWithAdmission ==
  \A id \in RoomIds, s \in Times, e \in Times :
    s < e
    => (({i \in DOMAIN reservations : AvailabilityMatches(reservations[i], id, s, e)} = {})
        <=> isRoomAvailable(reservations, id, s, e, NoId))
====
